---- MODULE Spec2Model ----
(***************************************************************************)
(* Ball Sort (src/src/App.tsx): the session controller, the per-frame      *)
(* physics integrator and the connectivity analysis of the App component.  *)
(*                                                                         *)
(* Numbers of the program are JavaScript doubles.  They are modelled in    *)
(* fixed point: a length or a velocity is an integer count of 1/Scale      *)
(* pixels, a dimensionless ratio (a unit vector component, a force factor) *)
(* an integer count of 1/Unit.  Divisions truncate toward zero, Math.hypot *)
(* rounds to the nearest representable value, comparisons of a distance    *)
(* with a radius are exact (on the squares).                               *)
(***************************************************************************)
EXTENDS Integers, Sequences, FiniteSets

\* ------------------------------------------------------------ resolution
Scale == 100
Unit == 10000

\* ------------------------------------------------------------- constants
FIELD_WIDTH == 600
FIELD_HEIGHT == 500
BALL_SIZE == 20
GROUP_RADIUS == 100
PUSH_RADIUS == 150
\* PUSH_FORCE = 2.5, in 1/Scale pixels.
PUSH_FORCE == (5 * Scale) \div 2
MAX_SPEED == 6
\* FRICTION = 0.97, in hundredths.
FRICTION == 97
\* const force = 0.3 of the collision response, in 1/Scale pixels.
COLLISION_FORCE == (3 * Scale) \div 10
\* The wall bounce factor -0.6, in tenths.
BOUNCE == -6
colors == <<"red", "green", "blue", "yellow", "purple", "orange">>
\* Math.max(6, ...) of the ball count input, Math.max(2, ...) of the colour input.
MIN_BALLS == 6
MIN_COLORS == 2
\* useState(2), useState(8).
INITIAL_COLORS == 2
INITIAL_BALLS == 8

\* ------------------------------------------------------------ arithmetic
Abs(a) == IF a < 0 THEN -a ELSE a

\* a / b for b > 0, truncated toward zero.
TDiv(a, b) == IF a >= 0 THEN a \div b ELSE -((-a) \div b)

RECURSIVE SqrtBits(_, _, _)
SqrtBits(n, r, bit) ==
  IF bit = 0 THEN r
  ELSE IF (r + bit) * (r + bit) <= n THEN SqrtBits(n, r + bit, bit \div 2)
       ELSE SqrtBits(n, r, bit \div 2)

\* Math.hypot(dx, dy), rounded to the nearest integer (|dx|, |dy| < 2^14).
Hypot(dx, dy) ==
  LET n == dx * dx + dy * dy
      r == SqrtBits(n, 0, 16384)
  IN IF n - r * r > r THEN r + 1 ELSE r

\* Math.hypot(dx, dy) < radius, exactly.
HypotLess(dx, dy, radius) ==
  /\ Abs(dx) < radius
  /\ Abs(dy) < radius
  /\ dx * dx + dy * dy < radius * radius

\* Math.hypot(dx, dy) <= radius, exactly.
HypotAtMost(dx, dy, radius) ==
  /\ Abs(dx) <= radius
  /\ Abs(dy) <= radius
  /\ dx * dx + dy * dy <= radius * radius

\* --------------------------------------------------------------- entities
\* cursorRef.current / cursorPos: null, or a position {x, y}.
NoCursor == <<>>

Ball(x, y, vx, vy, color) == [x |-> x, y |-> y, vx |-> vx, vy |-> vy, color |-> color]

\* colors[k]: undefined past the end of the palette.
ColorAt(k) == IF k < Len(colors) THEN colors[k + 1] ELSE "undefined"

\* ------------------------------------------------------------- integrator
\* Lines 121-131: the cursor's repulsion of ball b.
CursorForce(b, cursor, win) ==
  IF cursor # NoCursor /\ ~win
  THEN LET dx == b.x + (BALL_SIZE * Scale) \div 2 - cursor[1]
           dy == b.y + (BALL_SIZE * Scale) \div 2 - cursor[2]
       IN IF HypotLess(dx, dy, PUSH_RADIUS * Scale) /\ (dx # 0 \/ dy # 0)
          THEN LET dist == Hypot(dx, dy)
                   force == TDiv((PUSH_RADIUS * Scale - dist) * Unit, PUSH_RADIUS * Scale)
               IN [b EXCEPT
                     !.vx = @ + TDiv(TDiv(TDiv(dx * Unit, dist) * PUSH_FORCE, Unit) * force, Unit),
                     !.vy = @ + TDiv(TDiv(TDiv(dy * Unit, dist) * PUSH_FORCE, Unit) * force, Unit)]
          ELSE b
  ELSE b

CollidePairOneSided(bs, i, j) ==
  LET b == bs[i]
      o == bs[j]
      dx == b.x - o.x
      dy == b.y - o.y
  IN IF HypotLess(dx, dy, BALL_SIZE * Scale) /\ (dx # 0 \/ dy # 0)
     THEN LET dist == Hypot(dx, dy)
              overlap == BALL_SIZE * Scale - dist
              nx == TDiv(dx * Unit, dist)
              ny == TDiv(dy * Unit, dist)
          IN [bs EXCEPT
                ![i] = [b EXCEPT !.x = @ + TDiv(nx * overlap, Unit),
                                 !.y = @ + TDiv(ny * overlap, Unit),
                                 !.vx = @ + TDiv(nx * COLLISION_FORCE, Unit),
                                 !.vy = @ + TDiv(ny * COLLISION_FORCE, Unit)]]
     ELSE bs

CollidePairBug(bs, i, j) ==
  LET b == bs[i]
      o == bs[j]
      dx == b.x - o.x
      dy == b.y - o.y
  IN IF HypotLess(dx, dy, BALL_SIZE * Scale) /\ (dx # 0 \/ dy # 0)
     THEN LET dist == Hypot(dx, dy)
              overlap == BALL_SIZE * Scale - dist
              nx == TDiv(dx * Unit, dist)
              ny == TDiv(dy * Unit, dist)
          IN [bs EXCEPT
                ![i] = [b EXCEPT !.x = @ - TDiv(nx * overlap, 2 * Unit),
                                 !.y = @ - TDiv(ny * overlap, 2 * Unit),
                                 !.vx = @ - TDiv(nx * COLLISION_FORCE, Unit),
                                 !.vy = @ - TDiv(ny * COLLISION_FORCE, Unit)],
                ![j] = [o EXCEPT !.x = @ + TDiv(nx * overlap, 2 * Unit),
                                 !.y = @ + TDiv(ny * overlap, 2 * Unit),
                                 !.vx = @ + TDiv(nx * COLLISION_FORCE, Unit),
                                 !.vy = @ + TDiv(ny * COLLISION_FORCE, Unit)]]
     ELSE bs

\* Lines 134-151: the collision of balls[i] with a later balls[j].
CollidePair(bs, i, j) ==
  LET b == bs[i]
      o == bs[j]
      dx == b.x - o.x
      dy == b.y - o.y
  IN IF HypotLess(dx, dy, BALL_SIZE * Scale) /\ (dx # 0 \/ dy # 0)
     THEN LET dist == Hypot(dx, dy)
              overlap == BALL_SIZE * Scale - dist
              nx == TDiv(dx * Unit, dist)
              ny == TDiv(dy * Unit, dist)
          IN [bs EXCEPT
                ![i] = [b EXCEPT !.x = @ + TDiv(nx * overlap, 2 * Unit),
                                 !.y = @ + TDiv(ny * overlap, 2 * Unit),
                                 !.vx = @ + TDiv(nx * COLLISION_FORCE, Unit),
                                 !.vy = @ + TDiv(ny * COLLISION_FORCE, Unit)],
                ![j] = [o EXCEPT !.x = @ - TDiv(nx * overlap, 2 * Unit),
                                 !.y = @ - TDiv(ny * overlap, 2 * Unit),
                                 !.vx = @ - TDiv(nx * COLLISION_FORCE, Unit),
                                 !.vy = @ - TDiv(ny * COLLISION_FORCE, Unit)]]
     ELSE bs

\* Line 133: for (let j = i + 1; j < balls.length; j++).
RECURSIVE CollideLoop(_, _, _)
CollideLoop(bs, i, j) ==
  IF j > Len(bs) THEN bs ELSE CollideLoop(CollidePair(bs, i, j), i, j + 1)

\* Lines 118 and 133: the pairs <<i, j>> the two loops put to the collision
\* test in one step over a batch of n balls, in the order they are tested.
RECURSIVE CollideTests(_, _, _)
CollideTests(n, i, j) ==
  IF j > n THEN <<>> ELSE <<<<i, j>>>> \o CollideTests(n, i, j + 1)

RECURSIVE StepTests(_, _)
StepTests(n, i) ==
  IF i > n THEN <<>> ELSE CollideTests(n, i, i + 1) \o StepTests(n, i + 1)

\* Lines 154-157: position += velocity, then friction.
Integrate(b) ==
  [b EXCEPT !.x = @ + b.vx,
            !.y = @ + b.vy,
            !.vx = TDiv(@ * FRICTION, 100),
            !.vy = TDiv(@ * FRICTION, 100)]

ClampSpeedBug(b) == b

\* Lines 159-163: the speed clamp.
ClampSpeed(b) ==
  IF b.vx * b.vx + b.vy * b.vy > (MAX_SPEED * Scale) * (MAX_SPEED * Scale)
  THEN LET speed == Hypot(b.vx, b.vy)
       IN [b EXCEPT !.vx = TDiv(TDiv(b.vx * Unit, speed) * (MAX_SPEED * Scale), Unit),
                    !.vy = TDiv(TDiv(b.vy * Unit, speed) * (MAX_SPEED * Scale), Unit)]
  ELSE b

BounceXBug(b) ==
  IF b.x > (FIELD_WIDTH - BALL_SIZE) * Scale
  THEN [b EXCEPT !.x = (FIELD_WIDTH - BALL_SIZE) * Scale, !.vx = TDiv(@ * BOUNCE, 10)]
  ELSE b

\* Lines 165-166: the walls x = 0 and x = FIELD_WIDTH - BALL_SIZE.
BounceX(b) ==
  LET b1 == IF b.x < 0 THEN [b EXCEPT !.x = 0, !.vx = TDiv(@ * BOUNCE, 10)] ELSE b
  IN IF b1.x > (FIELD_WIDTH - BALL_SIZE) * Scale
     THEN [b1 EXCEPT !.x = (FIELD_WIDTH - BALL_SIZE) * Scale, !.vx = TDiv(@ * BOUNCE, 10)]
     ELSE b1

\* Lines 167-168: the walls y = 0 and y = FIELD_HEIGHT - BALL_SIZE.
BounceY(b) ==
  LET b1 == IF b.y < 0 THEN [b EXCEPT !.y = 0, !.vy = TDiv(@ * BOUNCE, 10)] ELSE b
  IN IF b1.y > (FIELD_HEIGHT - BALL_SIZE) * Scale
     THEN [b1 EXCEPT !.y = (FIELD_HEIGHT - BALL_SIZE) * Scale, !.vy = TDiv(@ * BOUNCE, 10)]
     ELSE b1

\* Lines 119-170: one iteration of the loop over the balls.
StepBall(bs, i, cursor, win) ==
  LET pushed == [bs EXCEPT ![i] = CursorForce(bs[i], cursor, win)]
      collided == CollideLoop(pushed, i, i + 1)
  IN [collided EXCEPT ![i] = BounceY(BounceX(ClampSpeed(Integrate(collided[i]))))]

\* Line 118: for (let i = 0; i < balls.length; i++).
RECURSIVE StepLoop(_, _, _, _)
StepLoop(bs, i, cursor, win) ==
  IF i > Len(bs) THEN bs ELSE StepLoop(StepBall(bs, i, cursor, win), i + 1, cursor, win)

\* Lines 118-171: the physics of one frame, for an animate closure that
\* captured isWin = win.
Step(bs, cursor, win) == StepLoop(bs, 1, cursor, win)

\* ----------------------------------------------------------- connectivity
\* Lines 201-203 and 231-233: centre distance <= GROUP_RADIUS.
Near(b, o) ==
  HypotAtMost(b.x + (BALL_SIZE * Scale) \div 2 - (o.x + (BALL_SIZE * Scale) \div 2),
              b.y + (BALL_SIZE * Scale) \div 2 - (o.y + (BALL_SIZE * Scale) \div 2),
              GROUP_RADIUS * Scale)

\* balls.filter((b) => b.color === color), as the indices in batch order.
SameColor(bs, color) ==
  LET RECURSIVE Pick(_)
      Pick(i) == IF i > Len(bs) THEN <<>>
                 ELSE IF bs[i].color = color THEN <<i>> \o Pick(i + 1) ELSE Pick(i + 1)
  IN Pick(1)

TraverseOneHop(bs, group, queue, visited) ==
  IF queue = <<>> THEN visited
  ELSE LET current == queue[Len(queue)]
           seen == visited \cup {current}
           found == SelectSeq(group, LAMBDA other: other \notin seen /\ Near(bs[current], bs[other]))
       IN seen \cup {found[k] : k \in 1..Len(found)}

\* Lines 196-206 and 226-236: the stack traversal; the visited set at its end.
RECURSIVE Traverse(_, _, _, _)
Traverse(bs, group, queue, visited) ==
  IF queue = <<>> THEN visited
  ELSE LET current == queue[Len(queue)]
           seen == visited \cup {current}
           found == SelectSeq(group, LAMBDA other: other \notin seen /\ Near(bs[current], bs[other]))
       IN Traverse(bs, group, SubSeq(queue, 1, Len(queue) - 1) \o found, seen)

\* Lines 186-209.
getHighlight(bs, i) ==
  IF Len(bs) = 0 THEN FALSE
  ELSE LET sameColorBalls == SameColor(bs, bs[i].color)
       IN IF Len(sameColorBalls) < 2 THEN FALSE
          ELSE LET visited == Traverse(bs, sameColorBalls, <<sameColorBalls[1]>>, {})
               IN i \in visited /\ Cardinality(visited) > 1

\* Lines 221-239: every colour group is visited whole from its first ball.
GroupsConnected(bs) ==
  \A c \in {bs[i].color : i \in 1..Len(bs)} :
     LET colorBalls == SameColor(bs, c)
     IN Cardinality(Traverse(bs, colorBalls, <<colorBalls[1]>>, {})) = Len(colorBalls)

CrossColorApartBug(bs) == TRUE

\* Lines 241-255: no two balls of different colours within GROUP_RADIUS.
CrossColorApart(bs) ==
  \A i \in 1..Len(bs) : \A j \in (i + 1)..Len(bs) :
     bs[i].color # bs[j].color => ~Near(bs[i], bs[j])

\* Lines 211-258.
checkWin(bs) ==
  IF Len(bs) = 0 THEN FALSE
  ELSE GroupsConnected(bs) /\ CrossColorApart(bs)

\* ------------------------------------------------------------------ bounds
\* Frames the clock may count.
MaxNow == 3
\* The largest ball count the configuration form is given; the colour counts
\* it is given go up to the most that this ball count allows.
MaxBallCount == 8

BallCounts == MIN_BALLS..MaxBallCount
ColorCounts == MIN_COLORS..(MaxBallCount \div 2)

\* The values Math.random() takes in one generateBalls call, as the layout
\* they produce (ball i, with cc colours), in pixels:
\*   sorted  one column per colour, columns just over GROUP_RADIUS apart, the
\*           balls of a column overlapping;
\*   split   the same columns, their balls over GROUP_RADIUS apart;
\*   mixed   two overlapping balls in the corner, the later one nearer the
\*           walls, the rest in a tight row of alternating colours.
Layouts == {"sorted", "split", "mixed"}

Place(layout, i, cc) ==
  CASE layout = "sorted" -> <<40 + 103 * (i % cc), 40 + 18 * (i \div cc)>>
    [] layout = "split" -> <<40 + 103 * (i % cc), 30 + 110 * (i \div cc)>>
    [] OTHER -> IF i = 0 THEN <<8, 6>>
                ELSE IF i = 1 THEN <<0, 0>>
                ELSE <<200 + 21 * (i - 2), 479>>

\* The pointer positions a mousemove reports, relative to the field: just right
\* of the centre of ball 1 of the column layouts, just left of the centre of
\* ball 2 of the mixed layout.
CursorPoints == {<<158 * Scale, 50 * Scale>>, <<205 * Scale, 489 * Scale>>}

\* ------------------------------------------------------------------ state
VARIABLES
  colorCount,    \* useState(2)
  ballCount,     \* useState(8)
  isWin,         \* useState(false)
  cursorPos,     \* useState(null)
  time,          \* useState(0), in frames of the clock
  errorMessage,  \* useState(null): <<>> or <<colorCount, colorCount * 2, ballCount>>
  balls,         \* ballsRef.current
  cursorRef,     \* cursorRef.current
  rafQueue,      \* the animation frame callbacks requested and not yet run
  effectWin,     \* the isWin that the installed [isWin] effects captured
  now,           \* the clock: the timestamp of the last frame
  lastStep       \* history: the batch and cursor the last physics step began with

vars == <<colorCount, ballCount, isWin, cursorPos, time, errorMessage, balls,
          cursorRef, rafQueue, effectWin, now, lastStep>>

\* The component's state as one value, so that a handler is a function of it.
Session ==
  [colorCount |-> colorCount, ballCount |-> ballCount, isWin |-> isWin,
   cursorPos |-> cursorPos, time |-> time, errorMessage |-> errorMessage,
   balls |-> balls, cursorRef |-> cursorRef, rafQueue |-> rafQueue,
   effectWin |-> effectWin, now |-> now, lastStep |-> lastStep]

Becomes(s) ==
  /\ colorCount' = s.colorCount
  /\ ballCount' = s.ballCount
  /\ isWin' = s.isWin
  /\ cursorPos' = s.cursorPos
  /\ time' = s.time
  /\ errorMessage' = s.errorMessage
  /\ balls' = s.balls
  /\ cursorRef' = s.cursorRef
  /\ rafQueue' = s.rafQueue
  /\ effectWin' = s.effectWin
  /\ now' = s.now
  /\ lastStep' = s.lastStep

NoStep == [stepped |-> FALSE, balls |-> <<>>, cursor |-> NoCursor, win |-> FALSE]

\* requestAnimationFrame(animate) of an effect instance that captured isWin = win;
\* ref: the handle is that of the installed instance's animationId.
AnimateCallback(win) == [kind |-> "animate", win |-> win, start |-> 0, ref |-> TRUE]

\* requestAnimationFrame(updateTime) of a startGame call at clock value start;
\* ref: the handle is timerRef.current.
TimerCallback(start) == [kind |-> "updateTime", win |-> FALSE, start |-> start, ref |-> TRUE]

\* cancelAnimationFrame(handle) for the handle a reference holds.
Cancel(queue, kind) == SelectSeq(queue, LAMBDA e: ~(e.kind = kind /\ e.ref))

\* A reference is overwritten: the callbacks it named keep running unnamed.
Unref(queue, kind) ==
  [k \in 1..Len(queue) |-> IF queue[k].kind = kind THEN [queue[k] EXCEPT !.ref = FALSE]
                           ELSE queue[k]]

\* ------------------------------------------------------------- generateBalls
\* Lines 39-58: the batch, or [] and the error.
generateBalls(s, layout) ==
  IF s.ballCount < s.colorCount * 2 THEN <<>>
  ELSE [k \in 1..s.ballCount |->
          LET p == Place(layout, k - 1, s.colorCount)
          IN Ball(p[1] * Scale, p[2] * Scale, 0, 0, ColorAt((k - 1) % s.colorCount))]

\* Lines 40-48: setErrorMessage of generateBalls.
generateError(s) ==
  IF s.ballCount < s.colorCount * 2
  THEN <<s.colorCount, s.colorCount * 2, s.ballCount>>
  ELSE <<>>

startGameBug(s, layout) ==
  LET generated == generateBalls(s, layout)
  IN IF Len(generated) = 0 THEN [s EXCEPT !.errorMessage = generateError(s)]
     ELSE [s EXCEPT !.errorMessage = generateError(s),
                    !.balls = generated,
                    !.isWin = FALSE,
                    !.time = s.time,
                    !.cursorPos = s.cursorPos,
                    !.cursorRef = s.cursorRef,
                    !.lastStep = NoStep,
                    !.rafQueue = Append(Unref(Cancel(s.rafQueue, "updateTime"), "updateTime"),
                                        TimerCallback(s.now))]

startGameResetsFirst(s, layout) ==
  LET generated == generateBalls(s, layout)
  IN IF Len(generated) = 0 THEN [s EXCEPT !.errorMessage = generateError(s), !.isWin = FALSE]
     ELSE startGameBug(s, layout)

\* Lines 60-78.
startGame(s, layout) ==
  LET generated == generateBalls(s, layout)
  IN IF Len(generated) = 0 THEN [s EXCEPT !.errorMessage = generateError(s)]
     ELSE [s EXCEPT !.errorMessage = generateError(s),
                    !.balls = generated,
                    !.isWin = FALSE,
                    !.time = 0,
                    !.cursorPos = NoCursor,
                    !.cursorRef = NoCursor,
                    !.lastStep = NoStep,
                    !.rafQueue = Append(Unref(Cancel(s.rafQueue, "updateTime"), "updateTime"),
                                        TimerCallback(s.now))]

\* ------------------------------------------------------------------ effects
RunIsWinEffectsNoCleanup(s) ==
  IF s.effectWin = s.isWin THEN s
  ELSE [s EXCEPT !.effectWin = s.isWin,
                 !.rafQueue = Append(Unref(s.rafQueue, "animate"), AnimateCallback(s.isWin))]

\* Lines 86-109 and 111-184: the effects that depend on [isWin] run again after a
\* render that changed isWin: the old animate chain is cancelled through its
\* animationId, the pointer handlers and a new animate chain capture the new isWin.
RunIsWinEffects(s) ==
  IF s.effectWin = s.isWin THEN s
  ELSE [s EXCEPT !.effectWin = s.isWin,
                 !.rafQueue = Append(Cancel(s.rafQueue, "animate"), AnimateCallback(s.isWin))]

\* ------------------------------------------------------------------- frame
animateKeepsTimer(st, e) ==
  IF Len(st.s.balls) = 0 THEN st
  ELSE LET stepped == Step(st.s.balls, st.s.cursorRef, e.win)
           won == ~e.win /\ checkWin(stepped)
           s1 == [st.s EXCEPT !.balls = stepped,
                              !.lastStep = [stepped |-> TRUE, balls |-> st.s.balls,
                                            cursor |-> IF e.win THEN NoCursor
                                                       ELSE st.s.cursorRef,
                                            win |-> e.win]]
           s2 == IF won THEN [s1 EXCEPT !.isWin = TRUE, !.cursorPos = NoCursor] ELSE s1
       IN [s |-> [s2 EXCEPT !.rafQueue = Append(@, e)], todo |-> st.todo]

\* Lines 114-180: animate, of a closure that captured isWin = e.win; st.todo are
\* the callbacks of this frame still to run, st.s.rafQueue those of the next.
animate(st, e) ==
  IF Len(st.s.balls) = 0 THEN st
  ELSE LET cursor == st.s.cursorRef
           stepped == Step(st.s.balls, cursor, e.win)
           history == [stepped |-> TRUE, balls |-> st.s.balls,
                       cursor |-> IF e.win THEN NoCursor ELSE cursor, win |-> e.win]
           won == ~e.win /\ checkWin(stepped)
           s1 == [st.s EXCEPT !.balls = stepped, !.lastStep = history]
           s2 == IF won
                 THEN [s1 EXCEPT !.isWin = TRUE,
                                 !.cursorPos = NoCursor,
                                 !.rafQueue = Cancel(@, "updateTime")]
                 ELSE s1
       IN [s |-> [s2 EXCEPT !.rafQueue = Append(@, e)],
           todo |-> IF won THEN Cancel(st.todo, "updateTime") ELSE st.todo]

\* Lines 73-76: updateTime(now).
updateTime(st, e) ==
  [st EXCEPT !.s = [st.s EXCEPT !.time = st.s.now - e.start,
                                !.rafQueue = Append(Unref(@, "updateTime"),
                                                    [e EXCEPT !.ref = TRUE])]]

\* The browser runs the frame's callbacks in the order they were requested; a
\* callback cancelled by an earlier one of the same frame does not run.
RECURSIVE RunCallbacks(_)
RunCallbacks(st) ==
  IF st.todo = <<>> THEN st.s
  ELSE LET e == Head(st.todo)
           rest == [st EXCEPT !.todo = Tail(@)]
       IN RunCallbacks(IF e.kind = "animate" THEN animate(rest, e) ELSE updateTime(rest, e))

\* ----------------------------------------------------------------- actions
\* Lines 296-301 and 352-357: a click on Start Game or Restart Game.  React
\* flushes the pending effects before it dispatches a discrete event.
StartClick ==
  \E layout \in Layouts : Becomes(startGame(RunIsWinEffects(Session), layout))

\* Lines 278-280 and 260-262: the ball count input changes; the effect on
\* [ballCount, colorCount, startGame] starts a game.
ChangeBallCount ==
  \E n \in BallCounts \ {ballCount} : \E layout \in Layouts :
     Becomes(startGame([RunIsWinEffects(Session) EXCEPT !.ballCount = n], layout))

\* Lines 290-292 and 260-262: the colour count input changes.
ChangeColorCount ==
  \E c \in ColorCounts \ {colorCount} : \E layout \in Layouts :
     Becomes(startGame([RunIsWinEffects(Session) EXCEPT !.colorCount = c], layout))

\* Lines 90-96: mousemove, handled by the handler the last effect run installed.
handleMove ==
  \E pos \in CursorPoints :
     /\ ~effectWin
     /\ cursorRef' = pos
     /\ cursorPos' = pos
     /\ UNCHANGED <<colorCount, ballCount, isWin, time, errorMessage, balls,
                    rafQueue, effectWin, now, lastStep>>

\* Lines 98-101: mouseleave.
handleLeave ==
  /\ cursorRef' = NoCursor
  /\ cursorPos' = NoCursor
  /\ UNCHANGED <<colorCount, ballCount, isWin, time, errorMessage, balls,
                 rafQueue, effectWin, now, lastStep>>

\* One animation frame: the clock advances and the requested callbacks run.
Frame ==
  /\ now < MaxNow
  /\ rafQueue # <<>>
  /\ Becomes(RunCallbacks([s |-> [Session EXCEPT !.now = now + 1, !.rafQueue = <<>>],
                           todo |-> rafQueue]))

\* After a render that changed isWin, React runs the [isWin] effects in a task
\* of their own.
Effects ==
  /\ effectWin # isWin
  /\ Becomes(RunIsWinEffects(Session))

\* The state after the component mounted: the effects ran in source order, the
\* animate effect (line 182) before the startGame effect (line 261).
Mounted(layout) ==
  startGame([colorCount |-> INITIAL_COLORS, ballCount |-> INITIAL_BALLS, isWin |-> FALSE,
             cursorPos |-> NoCursor, time |-> 0, errorMessage |-> <<>>,
             balls |-> <<>>, cursorRef |-> NoCursor,
             rafQueue |-> <<AnimateCallback(FALSE)>>,
             effectWin |-> FALSE, now |-> 0, lastStep |-> NoStep], layout)

Starts(s) ==
  /\ colorCount = s.colorCount
  /\ ballCount = s.ballCount
  /\ isWin = s.isWin
  /\ cursorPos = s.cursorPos
  /\ time = s.time
  /\ errorMessage = s.errorMessage
  /\ balls = s.balls
  /\ cursorRef = s.cursorRef
  /\ rafQueue = s.rafQueue
  /\ effectWin = s.effectWin
  /\ now = s.now
  /\ lastStep = s.lastStep

Init == \E layout \in Layouts : Starts(Mounted(layout))

Next ==
  \/ StartClick
  \/ ChangeBallCount
  \/ ChangeColorCount
  \/ handleMove
  \/ handleLeave
  \/ Frame
  \/ Effects

Spec == Init /\ [][Next]_vars

\* ---------------------------------------------------- the two-ball fixture
\* A batch of two balls put into a running session directly (the fixture of the
\* collision property): ball 0 at an anchor, next to the wall x = 0 or in the
\* middle of the field, ball 1 overlapping it or on top of it, each with a velocity within
\* MAX_SPEED, the pointer absent or next to ball 1.  In pixels.
PairAnchors == {<<0, 240>>, <<300, 240>>}
PairOffsets == {<<19, 0>>, <<5, 0>>, <<8, 6>>, <<0, 12>>, <<0, 0>>}
PairVelocities == {<<0, 0>>, <<MAX_SPEED, 0>>, <<-MAX_SPEED, 0>>}
PairCursors == {NoCursor, <<34 * Scale, 250 * Scale>>}

PairSession(a, d, v, w, cursor) ==
  [colorCount |-> INITIAL_COLORS, ballCount |-> INITIAL_BALLS, isWin |-> FALSE,
   cursorPos |-> cursor, time |-> 0, errorMessage |-> <<>>,
   balls |-> <<Ball(a[1] * Scale, a[2] * Scale, v[1] * Scale, v[2] * Scale, ColorAt(0)),
               Ball((a[1] + d[1]) * Scale, (a[2] + d[2]) * Scale,
                    w[1] * Scale, w[2] * Scale, ColorAt(1))>>,
   cursorRef |-> cursor,
   rafQueue |-> <<AnimateCallback(FALSE), TimerCallback(0)>>,
   effectWin |-> FALSE, now |-> 0, lastStep |-> NoStep]

InitPair ==
  \E a \in PairAnchors : \E d \in PairOffsets :
  \E v \in PairVelocities : \E w \in PairVelocities : \E cursor \in PairCursors :
     Starts(PairSession(a, d, v, w, cursor))

SpecPair == InitPair /\ [][Frame]_vars

\* ------------------------------------------------------ the chain fixture
\* The session right after the mount (8 balls, 2 colours, in cyclic colours
\* and at rest), for values of Math.random() that put the balls of the first
\* colour into slots of one row and those of the second into slots of another:
\* neighbouring slots are within GROUP_RADIUS of each other, others are not,
\* and balls of one slot coincide.  No two balls overlap otherwise, so the
\* batch stays as generated.  In pixels.
ChainSlots == {<<40, 100>>, <<130, 100>>, <<220, 100>>, <<310, 100>>}
ChainRows == {<<<<40, 300>>, <<130, 300>>, <<220, 300>>, <<310, 300>>>>,
              <<<<40, 300>>, <<220, 300>>, <<310, 300>>, <<310, 300>>>>}

ChainSession(first, second) ==
  [colorCount |-> INITIAL_COLORS, ballCount |-> INITIAL_BALLS, isWin |-> FALSE,
   cursorPos |-> NoCursor, time |-> 0, errorMessage |-> <<>>,
   balls |-> [k \in 1..INITIAL_BALLS |->
                LET p == IF (k - 1) % INITIAL_COLORS = 0
                         THEN first[((k - 1) \div INITIAL_COLORS) + 1]
                         ELSE second[((k - 1) \div INITIAL_COLORS) + 1]
                IN Ball(p[1] * Scale, p[2] * Scale, 0, 0, ColorAt((k - 1) % INITIAL_COLORS))],
   cursorRef |-> NoCursor,
   rafQueue |-> <<AnimateCallback(FALSE), TimerCallback(0)>>,
   effectWin |-> FALSE, now |-> 0, lastStep |-> NoStep]

InitChain ==
  \E first \in [1..(INITIAL_BALLS \div INITIAL_COLORS) -> ChainSlots] :
  \E second \in ChainRows :
     Starts(ChainSession(first, second))

SpecChain == InitChain /\ [][Frame]_vars

\* ------------------------------------------------------------------ claims
\* Two balls of one colour within GROUP_RADIUS of each other.
Linked(bs, i, j) == i # j /\ bs[i].color = bs[j].color /\ Near(bs[i], bs[j])

\* The balls of ball i's cluster: the least set holding i and closed under Linked.
RECURSIVE Closure(_, _)
Closure(bs, members) ==
  LET more == members \cup {j \in 1..Len(bs) : \E i \in members : Linked(bs, i, j)}
  IN IF more = members THEN members ELSE Closure(bs, more)

ClusterOf(bs, i) == Closure(bs, {i})

\* C1 (as claimed): while won stays true, no step of the session changes the
\* position or velocity of any ball: the integrator is suspended.
C1_FrozenWhileWon == [][(isWin /\ isWin') => balls' = balls]_vars

\* C2 (as claimed): every ball that has another ball of its colour within
\* GROUP_RADIUS (a cluster of size >= 2) is highlighted.
C2_ClusterHighlighted ==
  \A i \in 1..Len(balls) :
     Cardinality(ClusterOf(balls, i)) >= 2 => getHighlight(balls, i)

\* C3 (as claimed): after a start that failed validation (the error is shown)
\* the session holds no batch.
C3_NoBatchAfterFailedStart == errorMessage # <<>> => balls = <<>>

\* C4: every ball's top-left position is inside the arena, 0 <= x <= 580 and
\* 0 <= y <= 480, in every state (at the end of every step).
C4_InArena ==
  \A i \in 1..Len(balls) :
     /\ 0 <= balls[i].x /\ balls[i].x <= (FIELD_WIDTH - BALL_SIZE) * Scale
     /\ 0 <= balls[i].y /\ balls[i].y <= (FIELD_HEIGHT - BALL_SIZE) * Scale

Overlapping(b, o) ==
  HypotLess(b.x - o.x, b.y - o.y, BALL_SIZE * Scale) /\ (b.x # o.x \/ b.y # o.y)

\* C4's case: a step pushed a later-indexed ball, overlapped by an earlier one,
\* past the walls x = 0 and y = 0, where it was clamped and bounced.
C4_Witness ==
  /\ lastStep.stepped
  /\ \E j \in 1..Len(balls) : \E i \in 1..(j - 1) :
        /\ Overlapping(lastStep.balls[i], lastStep.balls[j])
        /\ balls[j].x = 0 /\ balls[j].vx > 0
        /\ balls[j].y = 0 /\ balls[j].vy > 0

\* The win condition as the specification words it: every colour is one
\* cluster and no two balls of different colours are within GROUP_RADIUS.
WinCondition(bs) ==
  /\ \A i \in 1..Len(bs) :
        {j \in 1..Len(bs) : bs[j].color = bs[i].color} \subseteq ClusterOf(bs, i)
  /\ \A i \in 1..Len(bs) : \A j \in 1..Len(bs) :
        bs[i].color # bs[j].color => ~Near(bs[i], bs[j])

\* The batch in another order: reversed, or rotated by k places.
Reversed(bs) == [k \in 1..Len(bs) |-> bs[Len(bs) + 1 - k]]
Rotated(bs, r) == [k \in 1..Len(bs) |-> bs[((k - 1 + r) % Len(bs)) + 1]]

\* C5: on a non-empty batch checkWin is true exactly when the win condition
\* holds, in whichever order the batch holds its balls.
C5_CheckWinExact ==
  Len(balls) > 0 =>
    /\ checkWin(balls) = WinCondition(balls)
    /\ checkWin(Reversed(balls)) = WinCondition(balls)
    /\ \A r \in 1..(Len(balls) - 1) : checkWin(Rotated(balls, r)) = WinCondition(balls)

\* C5's case: after a step every colour is connected but two balls of
\* different colours are within GROUP_RADIUS, and checkWin answers false.
C5_Witness ==
  /\ lastStep.stepped /\ Len(balls) > 0 /\ ~checkWin(balls)
  /\ GroupsConnected(balls) /\ ~CrossColorApart(balls)
\* diameter minus centre distance, floored at 0, of the two balls of a pair.
Overlap(bs) ==
  IF HypotLess(bs[1].x - bs[2].x, bs[1].y - bs[2].y, BALL_SIZE * Scale)
  THEN BALL_SIZE * Scale - Hypot(bs[1].x - bs[2].x, bs[1].y - bs[2].y)
  ELSE 0

AtRest(bs) == \A i \in 1..Len(bs) : bs[i].vx = 0 /\ bs[i].vy = 0

\* C6 (as claimed): a step that began with the two balls strictly overlapping
\* leaves their overlap strictly smaller, whatever their velocities and
\* whether or not the pointer is present.
C6_OverlapDecreases ==
  (lastStep.stepped /\ Overlapping(lastStep.balls[1], lastStep.balls[2]))
    => Overlap(balls) < Overlap(lastStep.balls)

\* C6 (amended): a step that began with the two balls strictly overlapping,
\* both at rest, and with no pointer force leaves their overlap strictly smaller.
C6_OverlapDecreasesAtRest ==
  (/\ lastStep.stepped
   /\ Overlapping(lastStep.balls[1], lastStep.balls[2])
   /\ AtRest(lastStep.balls)
   /\ lastStep.cursor = NoCursor)
    => Overlap(balls) < Overlap(lastStep.balls)

\* C6's case: such a step next to a wall, after which the balls still overlap.
C6_Witness ==
  /\ lastStep.stepped
  /\ Overlapping(lastStep.balls[1], lastStep.balls[2])
  /\ AtRest(lastStep.balls)
  /\ lastStep.cursor = NoCursor
  /\ Overlap(balls) > 0

\* C7 (as claimed): a batch the session holds has ballCount balls, in exactly
\* the first colorCount colours of the palette.
C7_BatchMatchesConfig ==
  Len(balls) > 0 =>
    /\ Len(balls) = ballCount
    /\ {balls[i].color : i \in 1..Len(balls)} = {ColorAt(k) : k \in 0..(colorCount - 1)}

StartAction == StartClick \/ ChangeBallCount \/ ChangeColorCount

Running == Len(balls) > 0 /\ ~isWin

\* The session right after a start that passed validation.
FreshGame ==
  /\ Len(balls) = ballCount
  /\ \A i \in 1..Len(balls) :
        /\ balls[i].color = colors[((i - 1) % colorCount) + 1]
        /\ balls[i].vx = 0 /\ balls[i].vy = 0
  /\ C4_InArena
  /\ errorMessage = <<>>
  /\ ~isWin
  /\ time = 0
  /\ cursorPos = NoCursor
  /\ Running
  /\ \E k \in 1..Len(rafQueue) : rafQueue[k].kind = "updateTime"

\* C8: a start with ballCount >= colorCount * 2 and colorCount <= 6, from any
\* state, leaves a fresh batch of ballCount balls in cyclic palette colours, at
\* rest inside the arena, no error, won false, elapsed time 0, the cursor
\* absent, and the session Running.
C8_ValidStartSpawns ==
  [][(StartAction /\ ballCount' >= colorCount' * 2 /\ colorCount' <= Len(colors))
       => FreshGame']_vars

\* C8's case: a restart out of Won, before the [isWin] effects ran again.
C8_Witness ==
  /\ ~isWin /\ effectWin
  /\ lastStep = NoStep /\ errorMessage = <<>>
  /\ now > 0 /\ time = 0

C10_WonUntilStart ==
  [][(isWin /\ ~isWin') => (StartAction /\ ballCount' >= colorCount' * 2)]_vars

\* C10's case: won is true although the balls no longer satisfy the win
\* predicate and the last start failed.
C10_Witness == isWin /\ ~checkWin(balls) /\ errorMessage # <<>>

\* C11 (as claimed): a frame that begins while the session is Running sets
\* won exactly when the positions its physics step leaves satisfy the win
\* predicate: the first such frame wins, a frame without them never does.
C11_WinAtFirstFrame ==
  [][(Running /\ now' = now + 1) => (isWin' = checkWin(balls'))]_vars

\* C12 (as claimed): in every state where won is true the cursor position is
\* absent, whenever the pointer moved.
C12_NoCursorWhileWon == isWin => cursorPos = NoCursor

\* C13: elapsed time is 0 after every start that passes validation, does not
\* decrease in a frame that begins while Running, and does not change in a
\* frame that begins while won, in whichever order the win frame ran the
\* timer callback and the physics callback.
C13_ClockStopsAtWin ==
  [][/\ (StartAction /\ ballCount' >= colorCount' * 2) => time' = 0
     /\ (now' = now + 1 /\ Running) => time' >= time
     /\ (now' = now + 1 /\ isWin) => time' = time]_vars

\* C13's case: the clock ran before the win, and a frame of the animate
\* closure that captured won = true has passed since: the time stands and no
\* timer callback is scheduled.
C13_Witness ==
  /\ isWin /\ time > 0
  /\ lastStep.stepped /\ lastStep.win
  /\ \A k \in 1..Len(rafQueue) : rafQueue[k].kind # "updateTime"

\* C14: at most one timer callback and at most one animate callback are
\* scheduled in any state, so that a frame runs the physics step at most once
\* and advances at most one clock.
C14_OneChainEach ==
  \A k \in 1..Len(rafQueue) : \A l \in 1..Len(rafQueue) :
     rafQueue[k].kind = rafQueue[l].kind => k = l

\* C14's case: after a win, the re-run of the [isWin] effects and a restart
\* at a later clock value, one chain of each kind is scheduled.
C14_Witness ==
  /\ ~isWin /\ effectWin /\ Len(rafQueue) = 2
  /\ \E k \in 1..2 : rafQueue[k].kind = "animate" /\ rafQueue[k].win
  /\ \E k \in 1..2 : rafQueue[k].kind = "updateTime" /\ rafQueue[k].start > 0

\* C15 (as claimed): every frame that begins while the session is Running
\* runs a physics step and then evaluates the win predicate, and leaves the
\* animate callback scheduled for the next frame.
C15_StepAndCheckEveryFrame ==
  [][(Running /\ now' = now + 1)
       => /\ lastStep'.stepped /\ lastStep'.balls = balls
          /\ ~lastStep'.win
          /\ \E k \in 1..Len(rafQueue') : rafQueue'[k].kind = "animate"]_vars

\* Each unordered pair of a batch of n balls is put to the collision test
\* exactly once in a step, as <<lower index, higher index>>.
EachPairOnce(n) ==
  LET tests == StepTests(n, 1)
  IN /\ \A k \in 1..Len(tests) : tests[k][1] < tests[k][2]
     /\ \A i \in 1..n : \A j \in (i + 1)..n :
           Cardinality({k \in 1..Len(tests) : tests[k] = <<i, j>>}) = 1

\* The resolution r of the collision of balls 1 and 2 of bs is equal and
\* opposite: the sums of the positions and of the velocities are those of bs.
EqualAndOpposite(bs, r) ==
  /\ r[1].x + r[2].x = bs[1].x + bs[2].x
  /\ r[1].y + r[2].y = bs[1].y + bs[2].y
  /\ r[1].vx + r[2].vx = bs[1].vx + bs[2].vx
  /\ r[1].vy + r[2].vy = bs[1].vy + bs[2].vy

\* How far the centre distance of balls 1 and 2 is from the diameter.
OffDiameter(bs) == Abs(Hypot(bs[1].x - bs[2].x, bs[1].y - bs[2].y) - BALL_SIZE * Scale)

Coincide(bs) == bs[1].x = bs[2].x /\ bs[1].y = bs[2].y

RECURSIVE StepUpTo(_, _, _, _)
StepUpTo(bs, k, cursor, win) ==
  IF k = 0 THEN bs ELSE StepBall(StepUpTo(bs, k - 1, cursor, win), k, cursor, win)

\* The centre of ball b is at a distance d from the pointer, 0 < d < PUSH_RADIUS.
InPushRange(b, cursor) ==
  /\ cursor # NoCursor
  /\ LET dx == b.x + (BALL_SIZE * Scale) \div 2 - cursor[1]
         dy == b.y + (BALL_SIZE * Scale) \div 2 - cursor[2]
     IN HypotLess(dx, dy, PUSH_RADIUS * Scale) /\ (dx # 0 \/ dy # 0)

\* Ball i, as its iteration of the step recorded in step found it, had its
\* velocity changed by the cursor force.
PushedInStep(step, i) ==
  LET b == StepUpTo(step.balls, i - 1, step.cursor, step.win)[i]
  IN CursorForce(b, step.cursor, step.win) # b

\* A step over bs, the pointer absent, has nothing to do: every ball at rest
\* inside the arena and no two balls closer than the diameter.
Settled(bs) ==
  /\ AtRest(bs)
  /\ \A i \in 1..Len(bs) :
        /\ 0 <= bs[i].x /\ bs[i].x <= (FIELD_WIDTH - BALL_SIZE) * Scale
        /\ 0 <= bs[i].y /\ bs[i].y <= (FIELD_HEIGHT - BALL_SIZE) * Scale
  /\ \A i \in 1..Len(bs) : \A j \in (i + 1)..Len(bs) :
        ~HypotLess(bs[i].x - bs[j].x, bs[i].y - bs[j].y, BALL_SIZE * Scale)

\* C17 (as claimed): the step of a frame changes a ball's velocity by the
\* cursor force only if, as the frame begins, a cursor is present, won is
\* false and the ball is in push range; and a step without a cursor over a
\* settled batch changes nothing.
C17_PushOnlyWhileRunning ==
  [][(now' = now + 1 /\ lastStep'.stepped)
       => /\ \A i \in 1..Len(balls) :
               PushedInStep(lastStep', i)
                 => (~isWin /\ InPushRange(StepUpTo(balls, i - 1, lastStep'.cursor,
                                                      lastStep'.win)[i], cursorRef))
          /\ (cursorRef = NoCursor /\ Settled(balls)) => balls' = balls]_vars

\* Ball i of the step recorded in step, as its iteration left it after the
\* speed clamp and before the walls (line 164).
BeforeWalls(step, i) ==
  LET before == StepUpTo(step.balls, i - 1, step.cursor, step.win)
      pushed == [before EXCEPT ![i] = CursorForce(before[i], step.cursor, step.win)]
  IN ClampSpeed(Integrate(CollideLoop(pushed, i, i + 1)[i]))

\* C18 (as claimed): a ball that the last step clamped to a wall on an axis
\* ends the step with a velocity component on that axis that is zero or
\* points into the arena.
C18_NoOutwardAfterClamp ==
  lastStep.stepped =>
    \A i \in 1..Len(balls) :
       LET b == BeforeWalls(lastStep, i)
       IN /\ b.x < 0 => balls[i].vx >= 0
          /\ b.x > (FIELD_WIDTH - BALL_SIZE) * Scale => balls[i].vx <= 0
          /\ b.y < 0 => balls[i].vy >= 0
          /\ b.y > (FIELD_HEIGHT - BALL_SIZE) * Scale => balls[i].vy <= 0

\* The entries a visit of current pushes: the balls of the group not visited
\* so far and within GROUP_RADIUS of it.
Pushed(bs, group, current, seen) ==
  SelectSeq(group, LAMBDA other: other \notin seen /\ Near(bs[current], bs[other]))

\* The number of pops the traversal of the code makes before its stack is empty.
RECURSIVE Pops(_, _, _, _)
Pops(bs, group, queue, visited) ==
  IF queue = <<>> THEN 0
  ELSE LET current == queue[Len(queue)]
           seen == visited \cup {current}
       IN 1 + Pops(bs, group,
                   SubSeq(queue, 1, Len(queue) - 1) \o Pushed(bs, group, current, seen), seen)

\* The visited sets of the traversal when the entry to explore next is any
\* entry of the stack, not the last one: one set for every order of exploration.
RECURSIVE Outcomes(_, _, _, _)
Outcomes(bs, group, queue, visited) ==
  IF queue = <<>> THEN {visited}
  ELSE UNION {LET current == queue[k]
                  seen == visited \cup {current}
                  rest == SubSeq(queue, 1, k - 1) \o SubSeq(queue, k + 1, Len(queue))
              IN Outcomes(bs, group, rest \o Pushed(bs, group, current, seen), seen)
              : k \in 1..Len(queue)}

\* C19: for every colour of the batch the traversal from the first ball of
\* the colour ends, within 2 * n * n pops for n balls of the colour, and its
\* visited set is the cluster of that ball: the balls of the colour reachable
\* from it over links of at most GROUP_RADIUS; so is the visited set of every
\* other order of exploration.
C19_VisitedIsCluster ==
  \A c \in {balls[i].color : i \in 1..Len(balls)} :
     LET group == SameColor(balls, c)
         seed == group[1]
     IN /\ Traverse(balls, group, <<seed>>, {}) = ClusterOf(balls, seed)
        /\ Pops(balls, group, <<seed>>, {}) <= 2 * Len(group) * Len(group)
        /\ Outcomes(balls, group, <<seed>>, {}) = {ClusterOf(balls, seed)}

\* C19's case: a frame has checked the win on a batch where the first ball of
\* one colour reaches a ball of its colour only through another one, with a
\* ball on the stack more than once, and the first ball of another colour
\* does not reach all balls of its colour.
C19_Witness ==
  /\ lastStep.stepped
  /\ \E c \in {balls[i].color : i \in 1..Len(balls)} :
        LET group == SameColor(balls, c)
            visited == Traverse(balls, group, <<group[1]>>, {})
        IN /\ \E i \in visited : ~Near(balls[group[1]], balls[i])
           /\ Pops(balls, group, <<group[1]>>, {}) > Cardinality(visited)
  /\ \E c \in {balls[i].color : i \in 1..Len(balls)} :
        LET group == SameColor(balls, c)
        IN Cardinality(Traverse(balls, group, <<group[1]>>, {})) < Len(group)
====
